---- MODULE Spec2Model ----
(***************************************************************************)
(* A model of pongrs (src/src/main.rs): two paddles and a ball, advanced   *)
(* once per input batch by World::update and rasterised by World::draw.    *)
(*                                                                         *)
(* The f32 components of Vector only ever hold small integers (0, 1, -1    *)
(* and their products with 2), which f32 represents exactly, so they are   *)
(* modelled as integers; round() and `as i32` are then exact.              *)
(***************************************************************************)
EXTENDS Integers, Sequences, FiniteSets, TLC

VARIABLES
    p1, ball, p2,   \* the fields of the one World (main.rs 70-74, 95)
    frame,          \* the pixel buffer handed to draw (main.rs 90-94, 104)
    input,          \* what the input helper reports (main.rs 79, 113-131)
    event,          \* the kind of event the handler last ran for (main.rs 97)
    status,         \* "running", "exiting" (elwt.exit() called) or "panicked"
    ticks,          \* number of update() calls so far in this exploration
    script          \* <<r, n>>: the first n batches hold ArrowRight for r batches
                    \* and then no key; later batches are unconstrained

vars == <<p1, ball, p2, frame, input, event, status, ticks, script>>

\* ---- constants of the program -------------------------------------------
WIDTH == 320
HEIGHT == 240
PLAYER_WIDTH == 32
PLAYER_HEIGHT == 5
BALL_SIZE == 5
P2_START_VELOCITY == 2
KEY_SPEED == 2
I32_MAX == 2147483647
I32_MIN == -I32_MAX - 1

FRAME_LEN == WIDTH * HEIGHT * 4

\* ---- bounds of the model ------------------------------------------------
\* update() calls with unconstrained keys explored after the scripted ones
MaxTicks == 160
\* the same, where every window event and the pixel buffer are modelled
HostTicks == 2

\* ---- i32 arithmetic -----------------------------------------------------
\* does the i32 addition a + b leave the i32 range?  (Written without ever
\* forming a value outside the range.)
Overflows(a, b) ==
    IF b >= 0 THEN a > I32_MAX - b ELSE a < I32_MIN - b

\* the i32 addition a + b: the sum, or its two's-complement wrap-around (what
\* a build without overflow checks stores) when the sum leaves the range
Add32(a, b) ==
    IF ~Overflows(a, b) THEN a + b
    ELSE IF b >= 0 THEN (a + I32_MIN) + (b + I32_MIN)
    ELSE (a - I32_MIN) + (b - I32_MIN)

\* ---- Vector -------------------------------------------------------------
dot(v, other) == v.x * other.x + v.y * other.y

\* a reflection that subtracts the projection once instead of twice
reflection_once(v, normal) ==
    LET angle == dot(v, normal)
    IN  [x |-> v.x - angle * normal.x, y |-> v.y - angle * normal.y, w |-> 0]

reflection(v, normal) ==
    LET angle == dot(v, normal)
        x == v.x - (2 * angle) * normal.x
        y == v.y - (2 * angle) * normal.y
    IN  [x |-> x, y |-> y, w |-> 0]

\* ---- Rect ---------------------------------------------------------------
\* an overlap test that only asks whether self starts before other ends
overlaps_one_sided(self, other) ==
    LET horizontal == self.x <= Add32(other.x, other.width)
        vertical == self.y <= Add32(other.y, other.height)
    IN  vertical /\ horizontal

\* an overlap test in which touching edges do not count
overlaps_strict(self, other) ==
    LET horizontal == self.x < Add32(other.x, other.width)
                      /\ Add32(self.x, self.width) > other.x
        vertical == self.y < Add32(other.y, other.height)
                    /\ Add32(self.y, self.height) > other.y
    IN  vertical /\ horizontal

overlaps(self, other) ==
    LET horizontal == self.x <= Add32(other.x, other.width)
                      /\ Add32(self.x, self.width) >= other.x
        vertical == self.y <= Add32(other.y, other.height)
                    /\ Add32(self.y, self.height) >= other.y
    IN  vertical /\ horizontal

\* the additions overlaps() performs, as pairs of operands (the right operand
\* of && is only evaluated when the left one is true)
overlaps_sums(self, other) ==
    {<<other.x, other.width>>, <<other.y, other.height>>}
    \cup (IF self.x <= Add32(other.x, other.width) THEN {<<self.x, self.width>>} ELSE {})
    \cup (IF self.y <= Add32(other.y, other.height) THEN {<<self.y, self.height>>} ELSE {})

\* ---- World --------------------------------------------------------------
World_new ==
    [p1 |-> [rect |-> [x |-> WIDTH \div 2, y |-> HEIGHT - PLAYER_HEIGHT - 1,
                       width |-> PLAYER_WIDTH, height |-> PLAYER_HEIGHT],
             velocity |-> 0],
     ball |-> [rect |-> [x |-> WIDTH \div 2, y |-> HEIGHT \div 2,
                         width |-> BALL_SIZE, height |-> BALL_SIZE],
               velocity |-> [x |-> 1, y |-> 1, w |-> 0]],
     p2 |-> [rect |-> [x |-> WIDTH \div 2, y |-> 1,
                       width |-> PLAYER_WIDTH, height |-> PLAYER_HEIGHT],
             velocity |-> P2_START_VELOCITY]]

\* a position step that forgets the right-hand boundary
update_player_no_right(p) ==
    LET newp == Add32(p.rect.x, p.velocity)
    IN  IF newp > 0 THEN [p EXCEPT !.rect.x = newp] ELSE p

\* a position step that clamps a rejected move to the boundary
update_player_clamp(p) ==
    LET newp == Add32(p.rect.x, p.velocity)
    IN  IF newp > 0 /\ Add32(newp, p.rect.width) < WIDTH
        THEN [p EXCEPT !.rect.x = newp]
        ELSE IF newp <= 0 THEN [p EXCEPT !.rect.x = 0]
        ELSE [p EXCEPT !.rect.x = WIDTH - p.rect.width]

update_player(p) ==
    LET newp == Add32(p.rect.x, p.velocity)
    IN  IF newp > 0 /\ Add32(newp, p.rect.width) < WIDTH
        THEN [p EXCEPT !.rect.x = newp]
        ELSE p

update_player_sums(p) ==
    {<<p.rect.x, p.velocity>>}
    \cup (IF Add32(p.rect.x, p.velocity) > 0
          THEN {<<Add32(p.rect.x, p.velocity), p.rect.width>>} ELSE {})

\* an AI paddle that never corrects its direction
ai_velocity_keep(w) == w.p2.velocity

\* an AI paddle that only ever turns to the right
ai_velocity_right_only(w) ==
    IF w.ball.velocity.x > 0 /\ w.p2.velocity < 0 THEN 1
    ELSE w.p2.velocity

\* lines 197-202: the direction correction of the AI paddle
ai_velocity(w) ==
    IF w.ball.velocity.x > 0 /\ w.p2.velocity < 0 THEN 1
    ELSE IF w.ball.velocity.x < 0 /\ w.p2.velocity > 0 THEN -1
    ELSE w.p2.velocity

\* lines 203-206: both paddles, then the ball, take their position step
moved(w) ==
    LET q2 == update_player([w.p2 EXCEPT !.velocity = ai_velocity(w)])
        q1 == update_player(w.p1)
        bx == Add32(w.ball.rect.x, w.ball.velocity.x)
        by == Add32(w.ball.rect.y, w.ball.velocity.y)
    IN  [p1 |-> q1, p2 |-> q2,
         ball |-> [w.ball EXCEPT !.rect.x = bx, !.rect.y = by]]

\* a collision step that tries the walls before the paddles
collide_walls_first(m) ==
    LET b == m.ball.rect
        v == m.ball.velocity
    IN  IF b.x <= 0 THEN reflection(v, [x |-> 1, y |-> 0, w |-> 0])
        ELSE IF Add32(b.x, b.width) >= WIDTH THEN reflection(v, [x |-> -1, y |-> 0, w |-> 0])
        ELSE IF overlaps(b, m.p2.rect) THEN reflection(v, [x |-> 0, y |-> 1, w |-> 0])
        ELSE IF overlaps(b, m.p1.rect) THEN reflection(v, [x |-> 0, y |-> -1, w |-> 0])
        ELSE v

\* lines 208-235: first matching rule reflects the velocity
collide(m) ==
    LET b == m.ball.rect
        v == m.ball.velocity
    IN  IF overlaps(b, m.p2.rect) THEN reflection(v, [x |-> 0, y |-> 1, w |-> 0])
        ELSE IF overlaps(b, m.p1.rect) THEN reflection(v, [x |-> 0, y |-> -1, w |-> 0])
        ELSE IF b.x <= 0 THEN reflection(v, [x |-> 1, y |-> 0, w |-> 0])
        ELSE IF Add32(b.x, b.width) >= WIDTH THEN reflection(v, [x |-> -1, y |-> 0, w |-> 0])
        ELSE v

update(w) ==
    LET m == moved(w)
    IN  [m EXCEPT !.ball.velocity = collide(m)]

\* every i32 addition one call of update() performs, as pairs of operands
update_sums(w) ==
    LET m == moved(w)
        b == m.ball.rect
        q2 == [w.p2 EXCEPT !.velocity = ai_velocity(w)]
    IN  {<<w.p2.rect.x, w.p2.rect.width \div 2>>}
        \cup update_player_sums(q2)
        \cup update_player_sums(w.p1)
        \cup {<<w.ball.rect.x, w.ball.velocity.x>>, <<w.ball.rect.y, w.ball.velocity.y>>}
        \cup overlaps_sums(b, m.p2.rect)
        \cup (IF overlaps(b, m.p2.rect) THEN {}
              ELSE overlaps_sums(b, m.p1.rect)
                   \cup (IF overlaps(b, m.p1.rect) \/ b.x <= 0 THEN {}
                         ELSE {<<b.x, b.width>>}))

\* the World at the first overflowing sum of update(), where a build with
\* overflow checks panics: the steps before it are already applied
panic_world(w) ==
    LET q2 == [w.p2 EXCEPT !.velocity = ai_velocity(w)]
        w1 == [w EXCEPT !.p2 = q2]
        w2 == [w1 EXCEPT !.p2 = update_player(q2)]
        w3 == [w2 EXCEPT !.p1 = update_player(w.p1)]
        w4 == [w3 EXCEPT !.ball.rect.x = Add32(w.ball.rect.x, w.ball.velocity.x)]
    IN  IF Overflows(w.p2.rect.x, w.p2.rect.width \div 2) THEN w
        ELSE IF \E s \in update_player_sums(q2) : Overflows(s[1], s[2]) THEN w1
        ELSE IF \E s \in update_player_sums(w.p1) : Overflows(s[1], s[2]) THEN w2
        ELSE IF Overflows(w.ball.rect.x, w.ball.velocity.x) THEN w3
        ELSE IF Overflows(w.ball.rect.y, w.ball.velocity.y) THEN w4
        ELSE moved(w)

world == [p1 |-> p1, ball |-> ball, p2 |-> p2]

SetWorld(w) == p1' = w.p1 /\ ball' = w.ball /\ p2' = w.p2

\* ---- the pixel buffer -----------------------------------------------------
\* A buffer of FRAME_LEN bytes is kept as the byte every position was last
\* filled with (base) and the bytes written since (over).
frame_byte(f, k) == IF k \in DOMAIN f.over THEN f.over[k] ELSE f.base

fill(f, b) == [base |-> b, over |-> [k \in {} |-> 0]]

\* the values of the Rust range a..b (empty when b <= a)
range(a, b) == IF a < b THEN a .. (b - 1) ELSE {}

\* the rows and the columns of a rect that draw_rect does not skip
\* (lines 238-245)
draw_rect_rows(rect) ==
    {i \in range(rect.y, Add32(rect.y, rect.height)) : ~(i >= HEIGHT \/ i < 0)}

draw_rect_cols(rect) ==
    {j \in range(rect.x, Add32(rect.x, rect.width)) : ~(j >= WIDTH \/ j < 0)}

\* the slice starts draw_rect writes at (line 247)
draw_rect_indices(rect) ==
    {(j + i * WIDTH) * 4 : i \in draw_rect_rows(rect), j \in draw_rect_cols(rect)}

\* the i32 additions of draw_rect, as pairs of operands: the end of the row
\* range, and the end of the column range in every row that is not skipped
draw_rect_sums(rect) ==
    {<<rect.y, rect.height>>}
    \cup (IF draw_rect_rows(rect) = {} THEN {} ELSE {<<rect.x, rect.width>>})

\* line 249: frame[index..index + 4] takes the four bytes of color.  The
\* starts are distinct multiples of 4, so the slices of one call are disjoint
\* and byte k of the buffer is byte k % 4 of its slice.
draw_rect(f, rect, color) ==
    LET written == UNION {idx .. (idx + 3) : idx \in draw_rect_indices(rect)}
    IN  [f EXCEPT !.over =
            [k \in (DOMAIN f.over) \cup written |->
                IF k \in written THEN color[(k % 4) + 1] ELSE f.over[k]]]

COLOR_P1 == <<255, 0, 0, 255>>
COLOR_P2 == <<0, 255, 0, 255>>
COLOR_BALL == <<255, 255, 255, 255>>

\* a draw that paints over the previous frame without clearing it
draw_no_clear(w, f) ==
    LET f1 == draw_rect(f, w.p1.rect, COLOR_P1)
        f2 == draw_rect(f1, w.p2.rect, COLOR_P2)
    IN  draw_rect(f2, w.ball.rect, COLOR_BALL)

\* a draw that paints the ball first, under the paddles
draw_ball_first(w, f) ==
    LET f0 == fill(f, 0)
        f1 == draw_rect(f0, w.ball.rect, COLOR_BALL)
        f2 == draw_rect(f1, w.p1.rect, COLOR_P1)
    IN  draw_rect(f2, w.p2.rect, COLOR_P2)

draw(w, f) ==
    LET f0 == fill(f, 0)
        f1 == draw_rect(f0, w.p1.rect, COLOR_P1)
        f2 == draw_rect(f1, w.p2.rect, COLOR_P2)
    IN  draw_rect(f2, w.ball.rect, COLOR_BALL)

draw_sums(w) ==
    draw_rect_sums(w.p1.rect) \cup draw_rect_sums(w.p2.rect)
    \cup draw_rect_sums(w.ball.rect)

\* the buffer at the first overflowing sum of draw(), where a build with
\* overflow checks panics: the rectangles before it are drawn
panic_frame(w, f) ==
    LET f0 == fill(f, 0)
        f1 == draw_rect(f0, w.p1.rect, COLOR_P1)
        f2 == draw_rect(f1, w.p2.rect, COLOR_P2)
    IN  IF \E s \in draw_rect_sums(w.p1.rect) : Overflows(s[1], s[2]) THEN f0
        ELSE IF \E s \in draw_rect_sums(w.p2.rect) : Overflows(s[1], s[2]) THEN f1
        ELSE f2

\* ---- update() from the event handler --------------------------------------
\* a key test that asks for ArrowRight first
key_velocity_right_first(inp) ==
    IF inp.right THEN KEY_SPEED ELSE IF inp.left THEN -KEY_SPEED ELSE 0

\* the velocity the held keys give p1 (lines 129-135)
key_velocity(inp) ==
    IF inp.left THEN -KEY_SPEED ELSE IF inp.right THEN KEY_SPEED ELSE 0

\* lines 129-137 for the World: p1.velocity from the keys, then update().
\* An overflowing sum wraps (overflow checks off) or panics (checks on).
RunUpdate(v) ==
    /\ ticks' = ticks + 1
    /\ LET w == [world EXCEPT !.p1.velocity = v]
       IN  IF \A s \in update_sums(w) : ~Overflows(s[1], s[2])
           THEN SetWorld(update(w)) /\ status' = status
           ELSE \/ SetWorld(update(w)) /\ status' = status
                \/ SetWorld(panic_world(w)) /\ status' = "panicked"

KeyVelocities == {-KEY_SPEED, 0, KEY_SPEED}

scripted == ticks < script[2]

script_velocity == IF ticks < script[1] THEN KEY_SPEED ELSE 0

\* One input batch that neither closes nor resizes the window: the keys held
\* at its end give v, and update() runs.  The first script[2] batches take v
\* from the script.
Tick(v) ==
    /\ status = "running"
    /\ ticks < script[2] + MaxTicks
    /\ scripted => v = script_velocity
    /\ input' = [input EXCEPT !.left = (v < 0), !.right = (v > 0)]
    /\ event' = "AboutToWait"
    /\ RunUpdate(v)
    /\ UNCHANGED <<frame, script>>

NoInput == [left |-> FALSE, right |-> FALSE, escape |-> FALSE,
            close |-> FALSE, resized |-> FALSE]

InitWith(scripts) ==
    /\ p1 = World_new.p1
    /\ ball = World_new.ball
    /\ p2 = World_new.p2
    /\ frame = fill(<<>>, 0)
    /\ input = NoInput
    /\ event = "none"
    /\ status = "running"
    /\ ticks = 0
    /\ script \in scripts

\* number of scripted batches, and of those that hold ArrowRight, of the run
\* in which p1 waits under the ball's first descent
ScriptTicks == 320
ScriptRight == 40

Init == InitWith({<<0, 0>>, <<ScriptRight, ScriptTicks>>})

Next == \E v \in KeyVelocities : Tick(v)

Spec == Init /\ [][Next]_vars

\* ---- the event handler, event by event (main.rs 97-140) -------------------
\* The events of one loop iteration arrive as NewEvents, window events,
\* AboutToWait; redraw requests are delivered between two iterations.
\* Nothing is delivered once elwt.exit() was called.  input.update() returns
\* true for AboutToWait only.
Handling == status = "running" /\ ~scripted

BetweenBatches == event \in {"none", "AboutToWait", "RedrawRequested"}

\* input.update(NewEvents) forgets what was pressed, closed and resized
NewEvents ==
    /\ Handling
    /\ BetweenBatches
    /\ input' = [input EXCEPT !.escape = FALSE, !.close = FALSE, !.resized = FALSE]
    /\ event' = "NewEvents"
    /\ UNCHANGED <<p1, ball, p2, frame, status, ticks, script>>

InBatch == ~BetweenBatches

Keys == {"ArrowLeft", "ArrowRight", "Escape"}

KeyboardInput(key, pressed) ==
    /\ Handling
    /\ InBatch
    /\ input' = CASE key = "ArrowLeft" -> [input EXCEPT !.left = pressed]
                  [] key = "ArrowRight" -> [input EXCEPT !.right = pressed]
                  [] key = "Escape" -> [input EXCEPT !.escape = @ \/ pressed]
    /\ event' = "KeyboardInput"
    /\ UNCHANGED <<p1, ball, p2, frame, status, ticks, script>>

CloseRequested ==
    /\ Handling
    /\ InBatch
    /\ input' = [input EXCEPT !.close = TRUE]
    /\ event' = "CloseRequested"
    /\ UNCHANGED <<p1, ball, p2, frame, status, ticks, script>>

Resized ==
    /\ Handling
    /\ InBatch
    /\ input' = [input EXCEPT !.resized = TRUE]
    /\ event' = "Resized"
    /\ UNCHANGED <<p1, ball, p2, frame, status, ticks, script>>

\* lines 99-110: draw, then present; a failed render() asks for exit.  An
\* overflowing sum in draw wraps (overflow checks off) or panics (checks on).
RedrawRequested(render_ok) ==
    /\ Handling
    /\ BetweenBatches
    /\ LET drawn == /\ frame' = draw(world, frame)
                    /\ status' = IF render_ok THEN status ELSE "exiting"
       IN  IF \A s \in draw_sums(world) : ~Overflows(s[1], s[2])
           THEN drawn
           ELSE \/ drawn
                \/ frame' = panic_frame(world, frame) /\ status' = "panicked"
    /\ event' = "RedrawRequested"
    /\ UNCHANGED <<p1, ball, p2, input, ticks, script>>

\* a handler that takes the keys before it looks at the close request
AboutToWait_keys_first(resize_ok) ==
    /\ Handling
    /\ InBatch
    /\ ticks < script[2] + HostTicks
    /\ event' = "AboutToWait"
    /\ IF input.escape \/ input.close \/ (input.resized /\ ~resize_ok)
       THEN /\ status' = "exiting"
            /\ p1' = [p1 EXCEPT !.velocity = key_velocity(input)]
            /\ UNCHANGED <<ball, p2, ticks>>
       ELSE RunUpdate(key_velocity(input))
    /\ UNCHANGED <<frame, input, script>>

\* lines 113-139: the end of an input batch
AboutToWait(resize_ok) ==
    /\ Handling
    /\ InBatch
    /\ ticks < script[2] + HostTicks
    /\ event' = "AboutToWait"
    /\ IF input.escape \/ input.close
       THEN status' = "exiting" /\ UNCHANGED <<p1, ball, p2, ticks>>
       ELSE IF input.resized /\ ~resize_ok
       THEN status' = "exiting" /\ UNCHANGED <<p1, ball, p2, ticks>>
       ELSE RunUpdate(key_velocity(input))
    /\ UNCHANGED <<frame, input, script>>

\* the scripted batches that lead to the state the events start from
ScriptTick == scripted /\ Tick(script_velocity)

\* the scripts: none; p1 arrives beside the descending ball as it reaches the
\* paddle row; no key, and the ball leaves through the bottom edge
BesideRight == 58
BesideTicks == 109
BottomTicks == 116

InitHost == InitWith({<<0, 0>>, <<BesideRight, BesideTicks>>, <<0, BottomTicks>>})

NextHost ==
    \/ ScriptTick
    \/ NewEvents
    \/ \E key \in Keys, pressed \in BOOLEAN : KeyboardInput(key, pressed)
    \/ CloseRequested
    \/ Resized
    \/ \E render_ok \in BOOLEAN : RedrawRequested(render_ok)
    \/ \E resize_ok \in BOOLEAN : AboutToWait(resize_ok)

SpecHost == InitHost /\ [][NextHost]_vars

\* ---- the state after a long idle run ---------------------------------------
\* With no key ever held p1 stays at x = 160 and the ball passes it on its
\* first descent (ticks 109-119: ball.x 269-279, p1 covers 160-192), so
\* ball.y = 120 + t after t calls of update().  From tick 500 on the rest of
\* the World repeats every 630 ticks (the ball runs between the side walls,
\* p2 follows it).  This is the World after 2147483427 calls:
\* 2147483427 = 2427 + 630 * 3408700, and the World after 2427 calls has
\* p2.x = 68, p2.velocity = 1, ball.x = 67, ball.velocity = (1, 1).
far_world ==
    [p1 |-> World_new.p1,
     ball |-> [rect |-> [x |-> 67, y |-> I32_MAX - 100,
                         width |-> BALL_SIZE, height |-> BALL_SIZE],
               velocity |-> [x |-> 1, y |-> 1, w |-> 0]],
     p2 |-> [rect |-> [x |-> 68, y |-> 1,
                       width |-> PLAYER_WIDTH, height |-> PLAYER_HEIGHT],
             velocity |-> 1]]

\* the idle run itself, one period past the tick far_world is taken from
IdleTicks == 3057

InitIdle == InitWith({<<0, IdleTicks>>})

SpecIdle == InitIdle /\ [][ScriptTick]_vars

\* In the idle run ball.y = 120 + t, and the rest of the World is that of
\* far_world after 2427 calls and again 630 calls later.  update() looks at
\* ball.y only to test the overlap with a paddle, which fails for every
\* ball.y above 239, so the run repeats with this period from there on.
IdleRunRepeats ==
    /\ ball.rect.y = 120 + ticks
    /\ ticks \in {2427, 2427 + 630} =>
          /\ p1 = far_world.p1
          /\ p2 = far_world.p2
          /\ ball.rect.x = far_world.ball.rect.x
          /\ ball.velocity = far_world.ball.velocity

\* the same run 95 idle calls on (ball.y = I32_MAX - 5), and the events from
\* there
FarIdle == 95

InitFarHost ==
    /\ p1 = far_world.p1
    /\ ball = far_world.ball
    /\ p2 = far_world.p2
    /\ frame = fill(<<>>, 0)
    /\ input = NoInput
    /\ event = "none"
    /\ status = "running"
    /\ ticks = 0
    /\ script = <<0, FarIdle>>

InitFar ==
    /\ p1 = far_world.p1
    /\ ball = far_world.ball
    /\ p2 = far_world.p2
    /\ frame = fill(<<>>, 0)
    /\ input = NoInput
    /\ event = "none"
    /\ status = "running"
    /\ ticks = 0
    /\ script = <<0, 0>>

SpecFar == InitFar /\ [][Next]_vars

SpecFarHost == InitFarHost /\ [][NextHost]_vars

\* ---- update() called for ever ---------------------------------------------
\* Every update() ends with window.request_redraw() (line 138), which brings
\* the next loop iteration and with it the next update(): a run that does not
\* exit keeps taking ticks.  Two states shortly before a turn of the ball, each
\* with the script that leads to it from World::new():
\*   - ArrowRight for 62 batches, then no key, 140 batches in all: p1 waits
\*     at x = 284, the ball slides along its right end towards the right
\*     wall, p2 is held at x = 286;
\*   - no key for 455 batches: the ball is below the board on its way to the
\*     left wall, p2 is held at x = 1.
LiveStarts ==
    {[script |-> <<62, 140>>,
      w |-> [p1 |-> [World_new.p1 EXCEPT !.rect.x = 284],
             ball |-> [rect |-> [x |-> 300, y |-> 238,
                                 width |-> BALL_SIZE, height |-> BALL_SIZE],
                       velocity |-> [x |-> 1, y |-> 1, w |-> 0]],
             p2 |-> [World_new.p2 EXCEPT !.rect.x = 286]]],
     [script |-> <<0, 455>>,
      w |-> [p1 |-> World_new.p1,
             ball |-> [rect |-> [x |-> 15, y |-> 575,
                                 width |-> BALL_SIZE, height |-> BALL_SIZE],
                       velocity |-> [x |-> -1, y |-> 1, w |-> 0]],
             p2 |-> [World_new.p2 EXCEPT !.rect.x = 1, !.velocity = -1]]]}

\* the scripted runs themselves
InitLead == InitWith({s.script : s \in LiveStarts})

SpecLead == InitLead /\ [][ScriptTick]_vars

\* each script ends in the World that LiveStarts gives for it
LiveStartsReached ==
    ~scripted => \E s \in LiveStarts : script = s.script /\ world = s.w

\* number of batches with any keys that follow
LiveTicks == 30

InitLive ==
    \E s \in LiveStarts :
        /\ p1 = s.w.p1
        /\ ball = s.w.ball
        /\ p2 = s.w.p2
        /\ frame = fill(<<>>, 0)
        /\ input = NoInput
        /\ event = "AboutToWait"
        /\ status = "running"
        /\ ticks = s.script[2]
        /\ script = s.script

LiveTick(v) == ticks < script[2] + LiveTicks /\ Tick(v)

NextLive == \E v \in KeyVelocities : LiveTick(v)

\* A tick is taken exactly when the run goes on and the batches are not used
\* up: NextLive is enabled in just these states and its steps are the steps
\* that count a tick, so weak fairness of LiveStep is weak fairness of NextLive.
LiveStep ==
    /\ status = "running"
    /\ ticks < script[2] + LiveTicks
    /\ ticks' = ticks + 1

SpecLive == InitLive /\ [][NextLive]_vars /\ WF_ticks(LiveStep)

\* ---- overlaps on its own ---------------------------------------------------
\* Rectangles with small coordinates and sizes, negative ones included, held
\* by p1 and the ball; p2 stays where World::new puts it, away from them.
MaxCoord == 2

MaxSize == 1

Rects ==
    {[x |-> x, y |-> y, width |-> width, height |-> height] :
        x \in (-1) .. MaxCoord, y \in (-1) .. MaxCoord,
        width \in (-1) .. MaxSize, height \in (-1) .. MaxSize}

InitRects ==
    /\ p1 \in {[rect |-> r, velocity |-> 0] : r \in Rects}
    /\ ball \in {[rect |-> r, velocity |-> World_new.ball.velocity] : r \in Rects}
    /\ p2 = World_new.p2
    /\ frame = fill(<<>>, 0)
    /\ input = NoInput
    /\ event = "none"
    /\ status = "running"
    /\ ticks = 0
    /\ script = <<0, 0>>

\* the collision part of update() (lines 208-235) on the rectangles as they are
Collide ==
    /\ ticks < 1
    /\ ball' = [ball EXCEPT !.velocity = collide(world)]
    /\ ticks' = ticks + 1
    /\ UNCHANGED <<p1, p2, frame, input, event, status, script>>

SpecRects == InitRects /\ [][Collide]_vars

\* ---- reflection on its own -------------------------------------------------
\* The ball's velocity with small whole components (an f32 holds them
\* exactly), reflected about the normals update() uses (lines 211-232).
MaxComp == 5

MaxReflections == 2

Normals ==
    {[x |-> 0, y |-> 1, w |-> 0], [x |-> 0, y |-> -1, w |-> 0],
     [x |-> 1, y |-> 0, w |-> 0], [x |-> -1, y |-> 0, w |-> 0]}

InitVector ==
    /\ p1 = World_new.p1
    /\ ball \in {[World_new.ball EXCEPT !.velocity = [x |-> x, y |-> y, w |-> 0]] :
                    x \in (-MaxComp) .. MaxComp, y \in (-MaxComp) .. MaxComp}
    /\ p2 = World_new.p2
    /\ frame = fill(<<>>, 0)
    /\ input = NoInput
    /\ event = "none"
    /\ status = "running"
    /\ ticks = 0
    /\ script = <<0, 0>>

Reflect(normal) ==
    /\ ticks < MaxReflections
    /\ ball' = [ball EXCEPT !.velocity = reflection(ball.velocity, normal)]
    /\ ticks' = ticks + 1
    /\ UNCHANGED <<p1, p2, frame, input, event, status, script>>

NextVector == \E normal \in Normals : Reflect(normal)

SpecVector == InitVector /\ [][NextVector]_vars

\* ---- update_player on its own ---------------------------------------------
\* every paddle the program builds or sets: x anywhere a paddle fits on the
\* screen, the two rows, and the velocities of the keys and of the AI
Players ==
    {[rect |-> [x |-> x, y |-> y, width |-> PLAYER_WIDTH, height |-> PLAYER_HEIGHT],
      velocity |-> v] :
        x \in 0 .. (WIDTH - PLAYER_WIDTH),
        y \in {1, HEIGHT - PLAYER_HEIGHT - 1},
        v \in KeyVelocities \cup {-1, 1}}

InitPlayer ==
    /\ p1 \in Players
    /\ ball = World_new.ball
    /\ p2 = World_new.p2
    /\ frame = fill(<<>>, 0)
    /\ input = NoInput
    /\ event = "none"
    /\ status = "running"
    /\ ticks = 0
    /\ script = <<0, 0>>

\* one call update_player(&mut p1); ticks counts the calls
StepPlayer ==
    /\ ticks < HostTicks
    /\ p1' = update_player(p1)
    /\ ticks' = ticks + 1
    /\ UNCHANGED <<ball, p2, frame, input, event, status, script>>

SpecPlayer == InitPlayer /\ [][StepPlayer]_vars

\* ---- the claims -----------------------------------------------------------
Abs(n) == IF n < 0 THEN -n ELSE n

Updated == ticks' # ticks /\ status' = "running"

\* C1: in every state reachable by update() calls with any key input, both
\* paddles lie fully inside the screen horizontally.
C1_PaddlesInside ==
    \A p \in {p1, p2} : 0 <= p.rect.x /\ p.rect.x + p.rect.width <= WIDTH

\* both paddles have had a move into a wall rejected: p2 at the right wall
\* with its start velocity, p1 at the left wall with ArrowLeft held
C1_Witness ==
    /\ ticks > 80
    /\ p2.velocity = P2_START_VELOCITY
    /\ p2.rect.x + p2.velocity + p2.rect.width >= WIDTH
    /\ p1.velocity = -KEY_SPEED
    /\ p1.rect.x + p1.velocity <= 0

\* C2: each component of the ball's velocity is +1 or -1 in every reachable
\* state.
C2_UnitVelocity ==
    ball.velocity.x \in {-1, 1} /\ ball.velocity.y \in {-1, 1}

\* the ball has been reflected by a wall and by a paddle
C2_Witness ==
    ticks > 0 /\ ball.velocity.x = -1 /\ ball.velocity.y = -1

\* C3: update() never changes the absolute value of p2.velocity.
C3_SpeedKept ==
    [][Abs(p2'.velocity) = Abs(p2.velocity)]_vars

\* C4: on the positions after the moves of a tick, the first of p2, p1, left
\* wall, right wall that matches decides the new velocity: a paddle negates
\* vy only, a wall negates vx only, no match leaves the velocity alone.
C4_FirstMatchWins ==
    [][Updated =>
        LET b == ball'.rect
            v == ball.velocity
            nv == ball'.velocity
            expected ==
                IF overlaps(b, p2'.rect) THEN <<v.x, -v.y>>
                ELSE IF overlaps(b, p1'.rect) THEN <<v.x, -v.y>>
                ELSE IF b.x <= 0 THEN <<-v.x, v.y>>
                ELSE IF b.x + b.width >= WIDTH THEN <<-v.x, v.y>>
                ELSE <<v.x, v.y>>
        IN  <<nv.x, nv.y>> = expected]_vars

\* the ball overlapped p1 while at the right wall, and kept moving right
C4_Witness ==
    /\ ticks > 0
    /\ overlaps(ball.rect, p1.rect)
    /\ ball.rect.x + ball.rect.width >= WIDTH
    /\ ball.velocity.x = 1

\* C5: update_player commits x + velocity exactly when it lies strictly
\* between 0 and WIDTH - width, leaves x alone otherwise, and changes no
\* other field of the paddle.
C5_CommitOrReject ==
    [][LET newx == p1.rect.x + p1.velocity
           commit == 0 < newx /\ newx + p1.rect.width < WIDTH
       IN  /\ p1' = [p1 EXCEPT !.rect.x = IF commit THEN newx ELSE @]
           /\ p1'.rect.x # p1.rect.x =>
                 0 < p1'.rect.x /\ p1'.rect.x < WIDTH - p1.rect.width]_vars

\* a move to the left from x = 0 was rejected
C5_Witness ==
    ticks > 0 /\ p1.rect.x = 0 /\ p1.velocity = -KEY_SPEED

\* the ball has passed a paddle: above p2 going up, or below p1 going down
Passed ==
    \/ ball.velocity.y = -1 /\ ball.rect.y + ball.rect.height < p2.rect.y
    \/ ball.velocity.y = 1 /\ ball.rect.y > p1.rect.y + p1.rect.height

\* C6: once the ball has passed a paddle, every update() keeps vy and moves
\* ball.y by exactly vy.
C6_NoReturn ==
    [][(ticks' # ticks /\ Passed) =>
        /\ ball'.velocity.y = ball.velocity.y
        /\ ~Overflows(ball.rect.y, ball.velocity.y)
        /\ ball'.rect.y = ball.rect.y + ball.velocity.y]_vars

\* C7: every addition of the update() called in a reachable state, whatever
\* the key input, stays within the i32 range.
C7_SumsInRange ==
    \A v \in KeyVelocities :
        \A s \in update_sums([world EXCEPT !.p1.velocity = v]) :
            ~Overflows(s[1], s[2])

\* C8: the event that asks for the loop's exit leaves the World alone and
\* does not call update().
C8_ExitLeavesWorld ==
    [][(status = "running" /\ status' = "exiting") =>
        p1' = p1 /\ ball' = ball /\ p2' = p2 /\ ticks' = ticks]_vars

\* a batch asked for exit while the held keys called for another p1.velocity
C8_Witness ==
    /\ status = "exiting"
    /\ event = "AboutToWait"
    /\ p1.velocity # (IF input.left THEN -KEY_SPEED
                      ELSE IF input.right THEN KEY_SPEED ELSE 0)

\* C9: every update() runs with p1.velocity just set from the held keys:
\* -2 for ArrowLeft, else +2 for ArrowRight, else 0; p1.velocity is never
\* anything else.
C9_VelocityFromKeys ==
    [][/\ p1'.velocity \in {-2, 0, 2}
       /\ ticks' # ticks =>
             p1'.velocity = (IF input'.left THEN -2 ELSE IF input'.right THEN 2 ELSE 0)]_vars

\* the handler ran update() with both arrow keys held
C9_Witness ==
    /\ ticks > script[2]
    /\ event = "AboutToWait"
    /\ status = "running"
    /\ input.left /\ input.right
    /\ p1.velocity = -KEY_SPEED

Covers(rect, x, y) ==
    /\ rect.x <= x /\ x < rect.x + rect.width
    /\ rect.y <= y /\ y < rect.y + rect.height

\* C10: after draw every pixel of the screen holds the colour of the last
\* drawn rectangle that covers it (ball over p2 over p1), or four zero bytes.
C10_FrameShowsWorld ==
    (event = "RedrawRequested" /\ status # "panicked") =>
        \A x \in 0 .. (WIDTH - 1), y \in 0 .. (HEIGHT - 1) :
            LET colour == IF Covers(ball.rect, x, y) THEN <<255, 255, 255, 255>>
                          ELSE IF Covers(p2.rect, x, y) THEN <<0, 255, 0, 255>>
                          ELSE IF Covers(p1.rect, x, y) THEN <<255, 0, 0, 255>>
                          ELSE <<0, 0, 0, 0>>
                at == (x + y * WIDTH) * 4
            IN  \A c \in 0 .. 3 : frame_byte(frame, at + c) = colour[c + 1]

\* a frame drawn, after an earlier one, with the ball over a pixel of p1
C10_Witness ==
    /\ event = "RedrawRequested"
    /\ ticks > script[2]
    /\ \E x \in 0 .. (WIDTH - 1), y \in 0 .. (HEIGHT - 1) :
          Covers(ball.rect, x, y) /\ Covers(p1.rect, x, y)

Screen == (0 .. (WIDTH - 1)) \X (0 .. (HEIGHT - 1))

\* the four bytes the buffer holds for pixel (x, y)
Pixel(f, x, y) ==
    [c \in 1 .. 4 |-> frame_byte(f, (x + y * WIDTH) * 4 + (c - 1))]

Drawn == event = "RedrawRequested" /\ status # "panicked"

P1OnScreen ==
    /\ 0 <= p1.rect.x /\ p1.rect.x + p1.rect.width <= WIDTH
    /\ 0 <= p1.rect.y /\ p1.rect.y + p1.rect.height <= HEIGHT

\* Every byte that was not written since the last fill is f.base.  So only
\* the pixels with a written byte can differ from four bytes f.base, and the
\* whole screen is covered by looking at those and at one unwritten pixel.
Touched(f) ==
    {<<(k \div 4) % WIDTH, (k \div 4) \div WIDTH>> : k \in DOMAIN f.over}

BaseQuad(f) == <<f.base, f.base, f.base, f.base>>

\* how many pixels of the screen hold colour
CountHolding(f, colour) ==
    Cardinality({q \in Touched(f) : Pixel(f, q[1], q[2]) = colour})
    + (IF BaseQuad(f) = colour
       THEN WIDTH * HEIGHT - Cardinality(Touched(f)) ELSE 0)

\* the pixels of the screen a rectangle covers
OnScreen(rect) ==
    {q \in (rect.x .. (rect.x + rect.width - 1)) \X (rect.y .. (rect.y + rect.height - 1)) :
        q \in Screen}

InARect(q) ==
    \/ Covers(p1.rect, q[1], q[2])
    \/ Covers(p2.rect, q[1], q[2])
    \/ Covers(ball.rect, q[1], q[2])

\* every pixel of the screen outside the three rectangles holds four zeros
OutsideCleared ==
    /\ \A q \in Touched(frame) :
          ~InARect(q) => Pixel(frame, q[1], q[2]) = <<0, 0, 0, 0>>
    /\ (\E q \in Screen : q \notin Touched(frame) /\ ~InARect(q))
          => BaseQuad(frame) = <<0, 0, 0, 0>>

\* C11 as stated: with p1 on the screen, draw leaves exactly width * height
\* pixels in p1's colour, and zeros outside the three rectangles.
C11_AllOfP1Red ==
    (Drawn /\ P1OnScreen) =>
        /\ CountHolding(frame, <<255, 0, 0, 255>>) = p1.rect.width * p1.rect.height
        /\ OutsideCleared

\* C11, amended: the pixels left in p1's colour are the width * height pixels
\* of p1 less those that p2 or the ball, drawn later, cover.
C11_VisibleOfP1Red ==
    (Drawn /\ P1OnScreen) =>
        /\ CountHolding(frame, <<255, 0, 0, 255>>)
              = p1.rect.width * p1.rect.height
                - Cardinality({q \in OnScreen(p1.rect) :
                      Covers(p2.rect, q[1], q[2]) \/ Covers(ball.rect, q[1], q[2])})
        /\ OutsideCleared

\* a frame drawn with the ball hiding at least two pixels of p1
C11_Witness ==
    /\ Drawn
    /\ P1OnScreen
    /\ Cardinality({q \in OnScreen(p1.rect) : Covers(ball.rect, q[1], q[2])}) >= 2

\* C12: draw_rect never fails and never writes outside the buffer: no redraw
\* ends in a panic, and every slice draw_rect writes for a rectangle of the
\* World lies inside the WIDTH * HEIGHT * 4 bytes.
C12_ClipsSilently ==
    /\ event = "RedrawRequested" => status # "panicked"
    /\ \A rect \in {p1.rect, p2.rect, ball.rect} :
          \A index \in draw_rect_indices(rect) :
              0 <= index /\ index + 4 <= FRAME_LEN

\* C13: overlaps is symmetric: a.overlaps(b) = b.overlaps(a) for the
\* rectangles of p1 and the ball, whatever their coordinates and sizes.
C13_Symmetric == overlaps(ball.rect, p1.rect) = overlaps(p1.rect, ball.rect)

\* the collision test has run on two rectangles that share one corner point
C13_Witness ==
    /\ ticks = 1
    /\ ball.rect.x + ball.rect.width = p1.rect.x
    /\ ball.rect.y + ball.rect.height = p1.rect.y
    /\ ball.rect.width > 0 /\ ball.rect.height > 0
    /\ overlaps(ball.rect, p1.rect)
    /\ overlaps(p1.rect, ball.rect)
    /\ ball.velocity.y = -1

\* the closed intervals [lo1, hi1] and [lo2, hi2] have a point in common
Intersect(lo1, hi1, lo2, hi2) == \E t \in lo1 .. hi1 : lo2 <= t /\ t <= hi2

\* C15: for rectangles with non-negative width and height, overlaps(a, b) is
\* true exactly when the closed intervals [a.x, a.x + a.width] and
\* [b.x, b.x + b.width] intersect and so do [a.y, a.y + a.height] and
\* [b.y, b.y + b.height].
C15_ClosedIntervals ==
    LET a == ball.rect
        b == p1.rect
    IN  (a.width >= 0 /\ a.height >= 0 /\ b.width >= 0 /\ b.height >= 0) =>
            (overlaps(a, b) <=>
                /\ Intersect(a.x, a.x + a.width, b.x, b.x + b.width)
                /\ Intersect(a.y, a.y + a.height, b.y, b.y + b.height))

\* the collision test has run on two rectangles that touch along an edge only
C15_Witness ==
    /\ ticks = 1
    /\ ball.rect.width > 0 /\ ball.rect.height > 0
    /\ p1.rect.width > 0 /\ p1.rect.height > 0
    /\ ball.rect.y + ball.rect.height = p1.rect.y
    /\ ball.rect.x = p1.rect.x
    /\ overlaps(ball.rect, p1.rect)
    /\ ball.velocity.y = -1

\* C14: reflecting twice about the same unit normal cancels: when a step has
\* reflected the velocity v about one of the four normals, reflecting the
\* result about that normal again gives the x and the y of v.
C14_TwiceCancels ==
    [][\A normal \in Normals :
          (ball'.velocity = reflection(ball.velocity, normal) /\ ticks' = ticks + 1) =>
              LET twice == reflection(ball'.velocity, normal)
              IN  twice.x = ball.velocity.x /\ twice.y = ball.velocity.y]_vars

\* a velocity with two different non-zero components has been reflected twice
C14_Witness ==
    /\ ticks = MaxReflections
    /\ ball.velocity.x = 3
    /\ ball.velocity.y = -2

\* C16: the ball stays horizontally inside the screen:
\* 0 <= ball.rect.x and ball.rect.x + ball.rect.width <= WIDTH.
C16_BallInsideWalls ==
    0 <= ball.rect.x /\ ball.rect.x + ball.rect.width <= WIDTH

\* the rule of the collision step that matched in the update() that led to
\* the current state: update() tests the rectangles it leaves behind
OnP2 == overlaps(ball.rect, p2.rect)

OnP1 == ~OnP2 /\ overlaps(ball.rect, p1.rect)

AtLeftWall == ~OnP2 /\ ~OnP1 /\ ball.rect.x <= 0

AtRightWall ==
    ~OnP2 /\ ~OnP1 /\ ball.rect.x > 0 /\ ball.rect.x + ball.rect.width >= WIDTH

\* C17: a wall bounce sends the ball back into the field: after an update()
\* in which the left-wall rule applied vx is +1, after one in which the
\* right-wall rule applied vx is -1.
C17_WallSendsBack ==
    (ticks > 0 /\ status = "running") =>
        /\ AtLeftWall => ball.velocity.x = 1
        /\ AtRightWall => ball.velocity.x = -1

\* C18: a paddle bounce sends the ball away from the paddle: after an
\* update() in which the ball overlapped p2 vy is +1, after one in which the
\* p1 rule applied vy is -1.
C18_PaddleSendsAway ==
    (ticks > 0 /\ status = "running") =>
        /\ OnP2 => ball.velocity.y = 1
        /\ OnP1 => ball.velocity.y = -1

\* C20: p2.velocity is never 0, and in every update() the velocity p2 moves
\* with (after the correction) has the sign of the ball's vx at the start of
\* that update().
C20_P2FollowsBall ==
    [][/\ p2.velocity # 0
       /\ Updated =>
            /\ p2'.velocity # 0
            /\ (p2'.velocity > 0) <=> (ball.velocity.x > 0)
            /\ (p2'.velocity < 0) <=> (ball.velocity.x < 0)]_vars

\* the ball has turned at the right wall and p2 has turned after it
C20_Witness ==
    /\ ticks > 0
    /\ status = "running"
    /\ p2.velocity = -1
    /\ p2.rect.x < WIDTH - PLAYER_WIDTH - 2

\* the next update() rejects p2's move and leaves p2.rect.x as it is
P2Rejected == status = "running" /\ moved(world).p2.rect.x = p2.rect.x

\* number of ticks before the end of a run in which a rejection is looked at
StuckMax == 24

\* the places at which update_player can reject a move of p2
StuckPlaces ==
    {x \in 1 .. (WIDTH - PLAYER_WIDTH - 1) :
        \E v \in {-1, 1, P2_START_VELOCITY} :
            ~(x + v > 0 /\ x + v + PLAYER_WIDTH < WIDTH)}

\* C19: the AI paddle is never stuck for ever: whenever p2's move is rejected
\* at a place x0 (with StuckMax ticks of the run still to come), p2.rect.x is
\* later different from x0; and moves are rejected at StuckPlaces only.
C19_P2MovesAgain ==
    /\ [](P2Rejected => p2.rect.x \in StuckPlaces)
    /\ \A x0 \in StuckPlaces :
          [](P2Rejected /\ p2.rect.x = x0 /\ ticks + StuckMax <= script[2] + LiveTicks
                => <>(p2.rect.x # x0))

\* p2 has left the right wall, after the scripted batches
C19_Witness ==
    /\ ticks > script[2]
    /\ script[1] > 0
    /\ p2.velocity = -1
    /\ p2.rect.x < WIDTH - PLAYER_WIDTH - 2

====
